---- MODULE Spec2Model ----
(***************************************************************************)
(* Multispinner (src/index.js): a registry of named spinners, an interval  *)
(* timer that redraws them, and the calls that complete a spinner.         *)
(* JavaScript runs every call and every timer callback to completion, so   *)
(* each public call and each tick is one step.                             *)
(***************************************************************************)
EXTENDS Integers, Sequences, FiniteSets, TLC

VARIABLES
    spinners,     \* this.spinners: the entries, in property creation order
    i,            \* this.i: index of the current animation frame
    currentFrame, \* this.currentFrame: glyph last taken from this.frames
    state,        \* this.state: the handle returned by the last setInterval
    timers,       \* the runtime's table of armed interval timers (handles)
    clear,        \* this.clear: clear the block on completion
    debug,        \* this.debug: send the block to a discarded stream
    update,       \* this.update: the log-update instance the block is written to
    block,        \* the last block handed to this.update
    stdoutOps,    \* kinds of operation that reached log-update on process.stdout
    sinkOps,      \* kinds of operation that reached the discarded Writable
    clears,       \* calls of logUpdate.clear()
    wroteAfterClear, \* a block was written after a clear()
    callsOpen,    \* the caller may still make public calls
    built,        \* the constructor's arguments (their kinds) and what it threw
    lastOp        \* the call or tick that ran last, and how it ended

vars == <<spinners, i, currentFrame, state, timers, clear, debug, update, block,
          stdoutOps, sinkOps, clears, wroteAfterClear, callsOpen, built, lastOp>>

----------------------------------------------------------------------------
(* Bounds of the model *)

MaxSpinners == 2    \* longest spinners argument
MaxTimers == 2      \* most interval timers armed at once
MaxCount == 2       \* the operation counters saturate here

Names == {"a", "1"}            \* spinner names a caller may use
StateArgs == {"incomplete", "success", "error", "done"}  \* values handed to complete()

----------------------------------------------------------------------------
(* lib/states, lib/defaultProps, lib/createSpinner: required by index.js *)

states == [incomplete |-> "incomplete", success |-> "success", error |-> "error"]

frames == <<"-", "\\", "|", "/">>
frameCount == Len(frames)
incompleteColor == "blue"
successColor == "green"
errorColor == "red"
successSymbol == "v"
errorSymbol == "x"
indentStr == "  "
undefined == 0      \* this.state before the first setInterval

RECURSIVE indexOf(_, _)
indexOf(sp, name) ==
    IF sp = <<>> THEN 0
    ELSE IF sp[Len(sp)].name = name THEN Len(sp)
    ELSE indexOf(SubSeq(sp, 1, Len(sp) - 1), name)

has(sp, name) == indexOf(sp, name) # 0

\* this.spinners[spinner] = {state, current, text}: a new property is created
\* last, an existing one keeps its place
createSpinner(sp, spinner, text) ==
    LET e == [name |-> spinner, text |-> text, state |-> states.incomplete,
              current |-> <<>>]
    IN  IF has(sp, spinner)
        THEN [sp EXCEPT ![indexOf(sp, spinner)] = e]
        ELSE Append(sp, e)

----------------------------------------------------------------------------
(* Object.keys: integer-like keys ascending, then the others as created *)

arrayIndex(name) ==
    CASE name = "0" -> 0
      [] name = "1" -> 1
      [] name = "2" -> 2
      [] OTHER -> -1

isArrayIndex(name) == arrayIndex(name) >= 0

RECURSIVE insertIndex(_, _)
insertIndex(ks, name) ==
    IF ks = <<>> THEN <<name>>
    ELSE IF arrayIndex(name) < arrayIndex(ks[1]) THEN <<name>> \o ks
    ELSE <<ks[1]>> \o insertIndex(Tail(ks), name)

RECURSIVE sortedIndexKeys(_)
sortedIndexKeys(sp) ==
    IF sp = <<>> THEN <<>>
    ELSE LET rest == sortedIndexKeys(Tail(sp))
         IN  IF isArrayIndex(sp[1].name) THEN insertIndex(rest, sp[1].name) ELSE rest

RECURSIVE stringKeys(_)
stringKeys(sp) ==
    IF sp = <<>> THEN <<>>
    ELSE IF isArrayIndex(sp[1].name) THEN stringKeys(Tail(sp))
    ELSE <<sp[1].name>> \o stringKeys(Tail(sp))

ObjectKeys(sp) == sortedIndexKeys(sp) \o stringKeys(sp)

entry(sp, name) == sp[indexOf(sp, name)]

----------------------------------------------------------------------------
(* The constructor *)

SeqsUpTo(S, n) == UNION {[1..k -> S] : k \in 0..n}

distinct(s) == \A j, k \in 1..Len(s) : j # k => s[j] # s[k]

Label(name) == "Task " \o name

\* spinners given as an array of names
ArrayArgs == SeqsUpTo(Names, MaxSpinners)

\* spinners given as an object {name: label}, its properties as created
ObjectArgs ==
    {[k \in 1..Len(s) |-> [name |-> s[k], text |-> Label(s[k])]] :
        s \in {q \in SeqsUpTo(Names, MaxSpinners) : distinct(q)}}

RECURSIVE fromArray(_, _)
fromArray(sp, arr) ==
    IF arr = <<>> THEN sp
    ELSE fromArray(createSpinner(sp, arr[1], arr[1]), Tail(arr))

RECURSIVE fromKeys(_, _, _)
fromKeys(sp, obj, keys) ==
    IF keys = <<>> THEN sp
    ELSE fromKeys(createSpinner(sp, keys[1], entry(obj, keys[1]).text), obj, Tail(keys))

fromObject(obj) == fromKeys(<<>>, obj, ObjectKeys(obj))

NoOp == [op |-> "new", name |-> "", st |-> "", threw |-> FALSE, prev |-> "", ret |-> FALSE]

\* kindOf(spinners) for the spinners arguments considered
SpinnersKinds == {"array", "object", "string", "undefined"}

\* the opts arguments considered: none, an object, a string, the number 0
OptsArgs ==
    {[kind |-> "undefined", truthy |-> FALSE, clear |-> FALSE, debug |-> FALSE],
     [kind |-> "string", truthy |-> TRUE, clear |-> FALSE, debug |-> FALSE],
     [kind |-> "number", truthy |-> FALSE, clear |-> FALSE, debug |-> FALSE]}
    \cup {[kind |-> "object", truthy |-> TRUE, clear |-> c, debug |-> d] :
             c \in BOOLEAN, d \in BOOLEAN}

defaultProps == [clear |-> FALSE, debug |-> FALSE]

validOpts(opts) == opts.kind = "object"

\* the error the constructor's argument checks throw
validate(spinnersType, opts) ==
    IF spinnersType # "object" /\ spinnersType # "array" THEN "spinnersType"
    ELSE IF opts.truthy /\ opts.kind # "object" THEN "optsType"
    ELSE "none"

Init ==
    /\ \E spinnersType \in SpinnersKinds, opts \in OptsArgs :
         LET err == validate(spinnersType, opts)
             props == IF validOpts(opts) THEN opts ELSE defaultProps
         IN  /\ built = [spinners |-> spinnersType, opts |-> opts.kind, thrown |-> err]
             /\ IF err # "none"
                THEN /\ spinners = <<>>
                     /\ clear = FALSE
                     /\ debug = FALSE
                     /\ update = "none"
                     /\ callsOpen = FALSE
                ELSE /\ \/ /\ spinnersType = "array"
                           /\ \E arr \in ArrayArgs : spinners = fromArray(<<>>, arr)
                        \/ /\ spinnersType = "object"
                           /\ \E obj \in ObjectArgs : spinners = fromObject(obj)
                     /\ clear = props.clear
                     /\ debug = props.debug
                     /\ update = (IF debug THEN "sink" ELSE "stdout")
                     /\ callsOpen = TRUE
    /\ i = 0
    /\ currentFrame = frames[1]
    /\ state = undefined
    /\ timers = {}
    /\ block = <<>>
    /\ stdoutOps = {}
    /\ sinkOps = {}
    /\ clears = 0
    /\ wroteAfterClear = FALSE
    /\ lastOp = NoOp

----------------------------------------------------------------------------
(* The runtime's interval timers *)

Handles == 1..MaxTimers

\* setInterval returns a handle no armed timer has
setInterval(ts) == CHOOSE h \in Handles \ ts : \A g \in Handles \ ts : h <= g

\* clearInterval of undefined or of a cleared handle does nothing
clearInterval(ts, h) == ts \ {h}

Sat(n) == IF n < MaxCount THEN n + 1 ELSE n

----------------------------------------------------------------------------
(* Internal methods *)

\* allCompleted() comparing with === instead of !==
allCompletedInverted(sp) == \A k \in 1..Len(sp) : sp[k].state = states.incomplete

\* allCompleted() with some in place of every
allCompletedSome(sp) == \E k \in 1..Len(sp) : sp[k].state # states.incomplete

allCompleted(sp) == \A k \in 1..Len(sp) : sp[k].state # states.incomplete

color(st) ==
    CASE st = states.incomplete -> incompleteColor
      [] st = states.success -> successColor
      [] st = states.error -> errorColor

symbol(st, frame) ==
    CASE st = states.incomplete -> frame
      [] st = states.success -> successSymbol
      [] st = states.error -> errorSymbol

\* the line built from the entry's name instead of its text
lineOfName(e, frame) ==
    [color |-> color(e.state), str |-> indentStr \o symbol(e.state, frame) \o " " \o e.name]

\* chalk[color](`${indentStr}${symbol} ${text}`)
line(e, frame) ==
    [color |-> color(e.state), str |-> indentStr \o symbol(e.state, frame) \o " " \o e.text]

\* only the entries still animating are built again
renderIncompleteOnly(sp, frame) ==
    [k \in 1..Len(sp) |->
        IF sp[k].state = states.incomplete
        THEN [sp[k] EXCEPT !.current = line(sp[k], frame)]
        ELSE sp[k]]

render(sp, frame) == [k \in 1..Len(sp) |-> [sp[k] EXCEPT !.current = line(sp[k], frame)]]

\* Object.keys(this.spinners).map(spinner => this.spinners[spinner].current)
joined(sp) ==
    LET keys == ObjectKeys(sp)
    IN  [k \in 1..Len(keys) |-> entry(sp, keys[k]).current]

\* this.i = this.i++ % this.frameCount: the increment is lost
advancePostIncrement(n) == n % frameCount

\* this.i = ++this.i % this.frameCount
advance(n) == (n + 1) % frameCount

\* one firing of the interval timer t
tick(t) ==
    /\ t \in timers
    /\ LET i2 == advance(i)
           sp2 == render(spinners, frames[i2 + 1])
           done == allCompleted(sp2)
           written == IF update = "stdout" THEN {"write"} ELSE {}
           cleared == IF done /\ clear THEN {"clear"} ELSE {}
       IN  /\ i' = i2
           /\ currentFrame' = frames[i2 + 1]
           /\ spinners' = sp2
           /\ block' = joined(sp2)
           /\ sinkOps' = IF update = "sink" THEN sinkOps \cup {"write"} ELSE sinkOps
           /\ stdoutOps' = stdoutOps \cup written \cup cleared
           /\ wroteAfterClear' = (wroteAfterClear \/ clears > 0)
           /\ timers' = IF done THEN clearInterval(timers, state) ELSE timers
           /\ clears' = IF done /\ clear THEN Sat(clears) ELSE clears
    /\ lastOp' = [op |-> "tick", name |-> "", st |-> "", threw |-> FALSE, prev |-> "", ret |-> FALSE]
    /\ UNCHANGED <<state, clear, debug, update, callsOpen, built>>

\* complete() without its closing this.start()
completeNoRestart(spinner, st) ==
    /\ callsOpen
    /\ IF st \notin DOMAIN states
       THEN /\ lastOp' = [op |-> "complete", name |-> spinner, st |-> st,
                          threw |-> TRUE, prev |-> "", ret |-> FALSE]
            /\ UNCHANGED <<spinners, state, timers>>
       ELSE IF ~has(spinners, spinner)
       THEN /\ timers' = clearInterval(timers, state)
            /\ lastOp' = [op |-> "complete", name |-> spinner, st |-> st,
                          threw |-> TRUE, prev |-> "", ret |-> FALSE]
            /\ UNCHANGED <<spinners, state>>
       ELSE /\ spinners' = [spinners EXCEPT ![indexOf(spinners, spinner)].state = st]
            /\ timers' = clearInterval(timers, state)
            /\ lastOp' = [op |-> "complete", name |-> spinner, st |-> st,
                          threw |-> FALSE, prev |-> entry(spinners, spinner).state, ret |-> FALSE]
            /\ UNCHANGED state
    /\ UNCHANGED <<i, currentFrame, clear, debug, update, block, stdoutOps, sinkOps,
                   clears, wroteAfterClear, callsOpen, built>>

\* complete() that writes the state of an incomplete entry only
completeOnce(spinner, st) ==
    /\ callsOpen
    /\ IF st \notin DOMAIN states
       THEN /\ lastOp' = [op |-> "complete", name |-> spinner, st |-> st,
                          threw |-> TRUE, prev |-> "", ret |-> FALSE]
            /\ UNCHANGED <<spinners, state, timers>>
       ELSE IF ~has(spinners, spinner)
       THEN /\ timers' = clearInterval(timers, state)
            /\ lastOp' = [op |-> "complete", name |-> spinner, st |-> st,
                          threw |-> TRUE, prev |-> "", ret |-> FALSE]
            /\ UNCHANGED <<spinners, state>>
       ELSE /\ Cardinality(clearInterval(timers, state)) < MaxTimers
            /\ spinners' = IF entry(spinners, spinner).state = states.incomplete
                           THEN [spinners EXCEPT ![indexOf(spinners, spinner)].state = st]
                           ELSE spinners
            /\ state' = setInterval(clearInterval(timers, state))
            /\ timers' = clearInterval(timers, state) \cup {state'}
            /\ lastOp' = [op |-> "complete", name |-> spinner, st |-> st,
                          threw |-> FALSE, prev |-> entry(spinners, spinner).state, ret |-> FALSE]
    /\ UNCHANGED <<i, currentFrame, clear, debug, update, block, stdoutOps, sinkOps,
                   clears, wroteAfterClear, callsOpen, built>>

\* complete() that creates the entry of a name the registry lacks
completeCreates(spinner, st) ==
    /\ callsOpen
    /\ IF st \notin DOMAIN states
       THEN /\ lastOp' = [op |-> "complete", name |-> spinner, st |-> st,
                          threw |-> TRUE, prev |-> "", ret |-> FALSE]
            /\ UNCHANGED <<spinners, state, timers>>
       ELSE /\ Cardinality(clearInterval(timers, state)) < MaxTimers
            /\ spinners' = IF has(spinners, spinner)
                           THEN [spinners EXCEPT ![indexOf(spinners, spinner)].state = st]
                           ELSE Append(spinners, [name |-> spinner, text |-> spinner,
                                                  state |-> st, current |-> <<>>])
            /\ state' = setInterval(clearInterval(timers, state))
            /\ timers' = clearInterval(timers, state) \cup {state'}
            /\ lastOp' = [op |-> "complete", name |-> spinner, st |-> st,
                          threw |-> FALSE, prev |-> "", ret |-> FALSE]
    /\ UNCHANGED <<i, currentFrame, clear, debug, update, block, stdoutOps, sinkOps,
                   clears, wroteAfterClear, callsOpen, built>>

complete(spinner, st) ==
    /\ callsOpen
    /\ IF st \notin DOMAIN states
       THEN /\ lastOp' = [op |-> "complete", name |-> spinner, st |-> st,
                          threw |-> TRUE, prev |-> "", ret |-> FALSE]
            /\ UNCHANGED <<spinners, state, timers>>
       ELSE IF ~has(spinners, spinner)
       THEN /\ timers' = clearInterval(timers, state)
            /\ lastOp' = [op |-> "complete", name |-> spinner, st |-> st,
                          threw |-> TRUE, prev |-> "", ret |-> FALSE]
            /\ UNCHANGED <<spinners, state>>
       ELSE /\ Cardinality(clearInterval(timers, state)) < MaxTimers
            /\ spinners' = [spinners EXCEPT ![indexOf(spinners, spinner)].state = st]
            /\ state' = setInterval(clearInterval(timers, state))
            /\ timers' = clearInterval(timers, state) \cup {state'}
            /\ lastOp' = [op |-> "complete", name |-> spinner, st |-> st,
                          threw |-> FALSE, prev |-> entry(spinners, spinner).state, ret |-> FALSE]
    /\ UNCHANGED <<i, currentFrame, clear, debug, update, block, stdoutOps, sinkOps,
                   clears, wroteAfterClear, callsOpen, built>>

stop ==
    /\ callsOpen
    /\ timers' = clearInterval(timers, state)
    /\ lastOp' = [op |-> "stop", name |-> "", st |-> "", threw |-> FALSE, prev |-> "", ret |-> FALSE]
    /\ UNCHANGED <<spinners, i, currentFrame, state, clear, debug, update, block,
                   stdoutOps, sinkOps, clears, wroteAfterClear, callsOpen, built>>

----------------------------------------------------------------------------
(* External methods *)

\* start() that also rewinds the animation
startResets ==
    /\ callsOpen
    /\ Cardinality(timers) < MaxTimers
    /\ state' = setInterval(timers)
    /\ timers' = timers \cup {state'}
    /\ i' = 0
    /\ currentFrame' = frames[1]
    /\ lastOp' = [op |-> "start", name |-> "", st |-> "", threw |-> FALSE, prev |-> "",
                  ret |-> FALSE]
    /\ UNCHANGED <<spinners, clear, debug, update, block,
                   stdoutOps, sinkOps, clears, wroteAfterClear, callsOpen, built>>

start ==
    /\ callsOpen
    /\ Cardinality(timers) < MaxTimers
    /\ state' = setInterval(timers)
    /\ timers' = timers \cup {state'}
    /\ lastOp' = [op |-> "start", name |-> "", st |-> "", threw |-> FALSE, prev |-> "", ret |-> FALSE]
    /\ UNCHANGED <<spinners, i, currentFrame, clear, debug, update, block,
                   stdoutOps, sinkOps, clears, wroteAfterClear, callsOpen, built>>

success(spinner) == complete(spinner, states.success)

\* a call of allCompleted() by the caller
allCompletedCall ==
    /\ callsOpen
    /\ lastOp' = [op |-> "allCompleted", name |-> "", st |-> "", threw |-> FALSE,
                  prev |-> "", ret |-> allCompleted(spinners)]
    /\ UNCHANGED <<spinners, i, currentFrame, state, timers, clear, debug, update,
                   block, stdoutOps, sinkOps, clears, wroteAfterClear, callsOpen, built>>

\* error() handing complete() the wrong member of states
errorResets(spinner) == complete(spinner, states.incomplete)

error(spinner) == complete(spinner, states.error)

\* the caller makes no further call
close ==
    /\ callsOpen
    /\ callsOpen' = FALSE
    /\ UNCHANGED <<spinners, i, currentFrame, state, timers, clear, debug, update,
                   block, stdoutOps, sinkOps, clears, wroteAfterClear, built, lastOp>>

----------------------------------------------------------------------------
(* Specifications *)

Next ==
    \/ start
    \/ stop
    \/ \E n \in Names : success(n)
    \/ \E n \in Names : error(n)
    \/ allCompletedCall
    \/ \E t \in Handles : tick(t)

\* the public methods and the timer
Spec == Init /\ [][Next]_vars

\* the calls that change the instance, the timer, and the end of the calls
NextFair ==
    \/ start
    \/ stop
    \/ \E n \in Names : success(n)
    \/ \E n \in Names : error(n)
    \/ \E t \in Handles : tick(t)
    \/ close

\* the caller stops calling at some point; every armed interval timer keeps firing
FairSpec == Init /\ [][NextFair]_vars /\ \A t \in Handles : WF_vars(tick(t))

NextInternal ==
    \/ Next
    \/ \E n \in Names, st \in StateArgs : complete(n, st)

\* complete() called directly as well
SpecInternal == Init /\ [][NextInternal]_vars

TypeOK ==
    /\ state \in Handles \cup {undefined}
    /\ timers \subseteq Handles
    /\ i \in 0..(frameCount - 1)
    /\ clears \in 0..MaxCount

----------------------------------------------------------------------------
(* Claims *)

terminal(st) == st \in {states.success, states.error}

\* C1: at most one interval timer is armed at any time, whatever calls and
\* ticks came before (start() while running replaces the running timer).
C1_AtMostOneTimer == Cardinality(timers) <= 1

\* C2: once every entry is terminal and the caller makes no further call,
\* the loop eventually stops: a state with no armed timer is reached.
C2_LoopEventuallyStops ==
    (~callsOpen /\ spinners # <<>> /\ allCompleted(spinners)) ~> (timers = {})

\* C3: when stop() has returned no timer is armed, whatever calls came
\* before it.
C3_StopLeavesNoTimer == lastOp.op = "stop" => timers = {}

\* C4: for a registry with entries, with the clear flag set clear() is
\* called at most once and no block is written after it; with the flag unset
\* clear() is never called.
C4_ClearExactlyOnce ==
    spinners # <<>> =>
        /\ clear => (clears <= 1 /\ ~wroteAfterClear)
        /\ ~clear => clears = 0

\* C5: an entry's state changes only to Success or Error: a step either
\* leaves an entry's state alone or leaves it terminal, so a terminal entry
\* never becomes Incomplete again.
C5_TerminalStaysTerminal ==
    [][\A k \in 1..Len(spinners) :
          /\ Len(spinners') = Len(spinners)
          /\ \/ spinners'[k].state = spinners[k].state
             \/ terminal(spinners'[k].state)]_vars

C5_Witness ==
    /\ lastOp.op = "complete"
    /\ ~lastOp.threw
    /\ terminal(lastOp.prev)
    /\ terminal(entry(spinners, lastOp.name).state)

\* C6: when success(name) or error(name) has returned for an existing name
\* the timer in this.state is armed and the entry holds the new state; and
\* every tick renders an entry that is terminal when the tick begins with
\* the glyph and colour of that state, so the first tick after the call
\* shows it.
C6_CompletionShownByNextTick ==
    [][/\ (lastOp'.op = "complete" /\ ~lastOp'.threw) =>
            /\ state' \in timers'
            /\ entry(spinners', lastOp'.name).state = lastOp'.st
       /\ lastOp'.op = "tick" =>
            \A k \in 1..Len(spinners) :
                /\ spinners[k].state = states.success =>
                      spinners'[k].current =
                          [color |-> successColor,
                           str |-> indentStr \o successSymbol \o " " \o spinners[k].text]
                /\ spinners[k].state = states.error =>
                      spinners'[k].current =
                          [color |-> errorColor,
                           str |-> indentStr \o errorSymbol \o " " \o spinners[k].text]]_vars

C6_Witness ==
    /\ lastOp.op = "tick"
    /\ state \in timers
    /\ \E k \in 1..Len(spinners) :
          /\ spinners[k].state = states.error
          /\ spinners[k].current.color = errorColor
    /\ \E k \in 1..Len(spinners) : spinners[k].state = states.incomplete

\* C7: complete() given a state other than Success or Error throws and
\* leaves the timer, every entry and the frame index as they were.
C7_InvalidStateRejected ==
    [][(lastOp'.op = "complete" /\ ~terminal(lastOp'.st)) =>
          /\ lastOp'.threw
          /\ timers' = timers
          /\ state' = state
          /\ spinners' = spinners
          /\ i' = i]_vars

\* C8: in debug mode no operation, block write or clear(), reaches
\* log-update on process.stdout.
C8_DebugNothingOnStdout == (debug /\ spinners # <<>>) => stdoutOps = {}

\* C9: the block a tick hands to update holds one line per entry, in the
\* order the entries were inserted into the registry.
C9_BlockInInsertionOrder ==
    lastOp.op = "tick" =>
        block = [k \in 1..Len(spinners) |-> spinners[k].current]

\* C10: a completion call on an existing name does not throw and leaves the
\* entry in the state of that call, whatever state it had (success then
\* error leaves Error, a repeated call changes nothing); no other step
\* changes an entry's state, so the entry holds the state of the last call.
C10_LastWriteWins ==
    [][/\ (lastOp'.op = "complete" /\ has(spinners, lastOp'.name)) =>
            /\ ~lastOp'.threw
            /\ \A k \in 1..Len(spinners) :
                  spinners'[k].state =
                      IF spinners[k].name = lastOp'.name THEN lastOp'.st
                      ELSE spinners[k].state
       /\ lastOp'.op # "complete" =>
            \A k \in 1..Len(spinners) : spinners'[k].state = spinners[k].state]_vars

C10_Witness ==
    /\ lastOp.op = "complete"
    /\ lastOp.st = states.error
    /\ lastOp.prev = states.success
    /\ entry(spinners, lastOp.name).state = states.error

\* C11: a spinners argument that is neither an array nor an object, or a
\* supplied opts argument that is not an object, makes the constructor throw
\* before any entry exists and with no timer armed.
C11_BadArgumentsRejected ==
    (\/ built.spinners \notin {"array", "object"}
     \/ built.opts \notin {"undefined", "object"}) =>
        /\ built.thrown # "none"
        /\ spinners = <<>>
        /\ timers = {}

\* C12: right after the construction of a non-empty registry every entry is
\* Incomplete, allCompleted() is false and no timer is armed; the first
\* timer is armed by start() or by a completion call only.
C12_FreshInstance ==
    /\ [](( lastOp.op = "new" /\ built.thrown = "none" /\ spinners # <<>>) =>
            /\ \A k \in 1..Len(spinners) : spinners[k].state = "incomplete"
            /\ ~allCompleted(spinners)
            /\ timers = {})
    /\ [][(timers = {} /\ timers' # {}) => lastOp'.op \in {"start", "complete"}]_vars

C12_Witness ==
    /\ lastOp.op = "new"
    /\ built.thrown = "none"
    /\ Len(spinners) = 2
    /\ timers = {}

\* C13: allCompleted() returns true exactly when no entry is Incomplete
\* (so true for the empty registry), and the call leaves the entries, the
\* frame index and the timers as they were.
C13_AllCompletedPure ==
    [][lastOp'.op = "allCompleted" =>
          /\ lastOp'.ret = (\A k \in 1..Len(spinners) : terminal(spinners[k].state))
          /\ spinners' = spinners
          /\ i' = i
          /\ state' = state
          /\ timers' = timers]_vars

C13_Witness ==
    /\ lastOp.op = "allCompleted"
    /\ lastOp.ret
    /\ Len(spinners) = 2

\* C14: a tick tears down the timer exactly when every entry is terminal at
\* its end: it leaves the timers alone while some entry is Incomplete, and a
\* tick that sees all entries terminal leaves no timer armed, so no further
\* tick runs until a public call arms the loop again.
C14_TickStopsLoopOnce ==
    [][(lastOp'.op = "tick" /\ spinners # <<>>) =>
          /\ ~allCompleted(spinners') => timers' = timers
          /\ allCompleted(spinners') => timers' = {}]_vars

\* C15: a tick advances the frame index by one modulo the number of frames,
\* the index stays in 0..N-1, and when the index is back at 0 (after N
\* ticks) an Incomplete entry shows the first frame.
C15_FrameIndexCycles ==
    /\ [](i \in 0..(Len(frames) - 1))
    /\ [][lastOp'.op = "tick" =>
            /\ i' = (i + 1) % Len(frames)
            /\ currentFrame' = frames[i' + 1]
            /\ i' = 0 =>
                 \A k \in 1..Len(spinners) :
                     spinners[k].state = states.incomplete =>
                         spinners'[k].current.str =
                             indentStr \o frames[1] \o " " \o spinners[k].text]_vars

C15_Witness ==
    /\ lastOp.op = "tick"
    /\ i = 0
    /\ \E k \in 1..Len(spinners) :
          /\ spinners[k].state = states.incomplete
          /\ spinners[k].current.str = indentStr \o frames[1] \o " " \o spinners[k].text

\* C16: a tick builds each entry's line from the state the entry has then:
\* the current frame in the incomplete colour, the success glyph in the
\* success colour or the error glyph in the error colour, as indent, glyph,
\* a space and the entry's label; all Incomplete entries show one frame.
C16_LineFromState ==
    [][lastOp'.op = "tick" =>
          \A k \in 1..Len(spinners) :
              LET e == spinners[k]
                  glyph == CASE e.state = "incomplete" -> frames[i' + 1]
                             [] e.state = "success" -> successSymbol
                             [] e.state = "error" -> errorSymbol
                  paint == CASE e.state = "incomplete" -> incompleteColor
                             [] e.state = "success" -> successColor
                             [] e.state = "error" -> errorColor
              IN  spinners'[k].current =
                      [color |-> paint, str |-> indentStr \o glyph \o " " \o e.text]]_vars

C16_Witness ==
    /\ lastOp.op = "tick"
    /\ Len(spinners) = 2
    /\ \E k \in 1..2 : spinners[k].state = states.incomplete
    /\ \E k \in 1..2 : spinners[k].state = states.success
    /\ \A k \in 1..2 : spinners[k].text # spinners[k].name

\* C17: the frame index changes in a tick only: start(), stop(), success(),
\* error() and allCompleted() leave it alone, so a restarted loop resumes
\* from the frame it had reached.
C17_FrameIndexOnlyInTick ==
    [][lastOp'.op # "tick" => (i' = i /\ currentFrame' = currentFrame)]_vars

C17_Witness ==
    /\ lastOp.op = "start"
    /\ i = 2
    /\ state \in timers

\* C18: no step changes the names, their order or the labels; a completion
\* call on an existing name changes the state of that entry and of no
\* other; one on an absent name, start(), stop(), allCompleted() and ticks
\* change no entry's state.
C18_RegistryFixed ==
    [][/\ Len(spinners') = Len(spinners)
       /\ \A k \in 1..Len(spinners) :
             /\ spinners'[k].name = spinners[k].name
             /\ spinners'[k].text = spinners[k].text
             /\ spinners'[k].state # spinners[k].state =>
                   /\ lastOp'.op = "complete"
                   /\ lastOp'.name = spinners[k].name]_vars

C18_Witness ==
    /\ lastOp.op = "complete"
    /\ ~lastOp.threw
    /\ lastOp.prev = states.incomplete
    /\ Len(spinners) = 2
    /\ \E k \in 1..2 :
          /\ spinners[k].name # lastOp.name
          /\ spinners[k].state = states.incomplete

\* C19: a completion call that throws because the name is absent leaves the
\* entries and the armed timers as they were before the call.
C19_MissingNameChangesNothing ==
    [][(/\ lastOp'.op = "complete"
        /\ lastOp'.threw
        /\ spinners # <<>>
        /\ ~has(spinners, lastOp'.name)) =>
          /\ spinners' = spinners
          /\ timers' = timers]_vars

\* C20: the block written by a tick that finds every entry terminal (the
\* tick in which the loop stops itself) holds, for every entry, the line
\* with the glyph and colour of the state the entry has then.
C20_FinalBlockIsTerminal ==
    [][(lastOp'.op = "tick" /\ \A k \in 1..Len(spinners') : terminal(spinners'[k].state)) =>
          /\ Len(block') = Len(spinners')
          /\ \A k \in 1..Len(spinners') :
                LET e == spinners'[k]
                    want == IF e.state = states.success
                            THEN [color |-> successColor,
                                  str |-> indentStr \o successSymbol \o " " \o e.text]
                            ELSE [color |-> errorColor,
                                  str |-> indentStr \o errorSymbol \o " " \o e.text]
                IN  \E j \in 1..Len(block') : block'[j] = want]_vars

C20_Witness ==
    /\ lastOp.op = "tick"
    /\ Len(spinners) = 2
    /\ \E k \in 1..2 : spinners[k].state = states.success
    /\ \E k \in 1..2 : spinners[k].state = states.error
    /\ state \notin timers

====
